---- MODULE Spec2Model ----
(***************************************************************************)
(* The unified OCR pipeline of textract_processor.py: main's per-document  *)
(* loop, the optimizer repair_and_optimize_pdf, the Textract client        *)
(* helpers and the processing summary that main writes at the end.         *)
(*                                                                         *)
(* One run of main is modelled.  Documents are numbered 1..pdf_files in    *)
(* the order of the glob.  A file_record is a dict that main both keeps in *)
(* a local and appends to processing_summary["files"]; the list therefore  *)
(* holds references, modelled as indexes into heap.                        *)
(*                                                                         *)
(* enhance_pdf of ocr_repair_helper.py, which main does not call, is       *)
(* modelled as a call of its own (SpecEnhance), and a second poll and      *)
(* retrieval of a finished job as steps between main's (SpecAwait).        *)
(*                                                                         *)
(* The three per-document paths (temp_images/<stem>, the optimized PDF and *)
(* the result JSON) are distinct for distinct documents and are touched    *)
(* only while their document is the loop variable, so the model keeps the  *)
(* state of the current document's paths only.                             *)
(***************************************************************************)
EXTENDS Integers, Sequences, FiniteSets, TLC

\* ---------------------------------------------------------------- bounds
MaxDocs == 3
MaxPages == 2
MaxResultPages == 3
MaxSourcePages == 2

\* ------------------------------------------------------------ vocabulary
Null == "null"
NoPath == 0
None == 0

OptimizedPath(d) == 100 + d
OutputPath(d) == 200 + d

\* The Blocks of the result pages of a job with len pages: every page has its
\* own content, in no fixed relation to its position.
PageContents(len) ==
    {[i \in 1..len |-> i], [i \in 1..len |-> len + 1 - i]}

\* The continuation tokens of a chain of len pages: opaque, distinct, and in
\* no fixed relation to the position of the page they lead to.
TokenChains(len) ==
    {[i \in 1..(len - 1) |-> i], [i \in 1..(len - 1) |-> len - i]}

Absent == [exists |-> FALSE, files |-> {}]
TempDirStates ==
    {Absent, [exists |-> TRUE, files |-> {}], [exists |-> TRUE, files |-> {0}]}

VARIABLES
    pc, pdf_files, idx, heap, processing_summary, log_file, exc, escaping,
    pdf_temp_dir, optimized_file, output_file, s3_object,
    job, job_id, pages, next_token,
    trace, requests, optimizer, consoleFault, source,
    enh_pc, enh_images, enh_image_paths, enh_output, enh_returned, enh_fault,
    again

\* The state of one call of enhance_pdf (ocr_repair_helper.py), which main's
\* pipeline does not make.
enhance_vars ==
    <<enh_pc, enh_images, enh_image_paths, enh_output, enh_returned, enh_fault>>

\* The state of main and of the helpers it calls.
main_vars ==
    <<pc, pdf_files, idx, heap, processing_summary, log_file, exc, escaping,
      pdf_temp_dir, optimized_file, output_file, s3_object,
      job, job_id, pages, next_token,
      trace, requests, optimizer, consoleFault, source>>

vars ==
    <<pc, pdf_files, idx, heap, processing_summary, log_file, exc, escaping,
      pdf_temp_dir, optimized_file, output_file, s3_object,
      job, job_id, pages, next_token,
      trace, requests, optimizer, consoleFault, source,
      enh_pc, enh_images, enh_image_paths, enh_output, enh_returned, enh_fault,
      again>>

\* ------------------------------------------------- repair_and_optimize_pdf
FailPoints(n) ==
    {<<k, 0>> : k \in {"none", "rasterize", "open", "img2pdf", "write", "print", "rmdir"}}
        \cup {<<k, i>> : k \in {"convert", "save", "save_partial", "unlink"}, i \in 1..n}

\* The position of a failure point in the function's straight-line order.
Step(fail, n) ==
    CASE fail[1] = "rasterize" -> 1
      [] fail[1] = "convert" -> 2 * fail[2]
      [] fail[1] \in {"save", "save_partial"} -> 2 * fail[2] + 1
      [] fail[1] = "open" -> 2 * n + 2
      [] fail[1] = "img2pdf" -> 2 * n + 3
      [] fail[1] = "write" -> 2 * n + 4
      [] fail[1] = "print" -> 2 * n + 5
      [] fail[1] = "unlink" -> 2 * n + 5 + fail[2]
      [] fail[1] = "rmdir" -> 3 * n + 6
      [] OTHER -> 3 * n + 7

CleanUpOnErrorNoRmtree(dir) == dir

CleanUpOnError(dir) == IF dir.exists THEN Absent ELSE dir

\* Lines 70 and 98-102: the call raises when a step before the return of line
\* 96 fails; rmdir (line 94) fails when the directory still holds a file.
RaisesOnNoPages(at, n, left) == n = 0 \/ at < 3 * n + 7 \/ left # {}

Raises(at, n, left) == at < 3 * n + 7 \/ left # {}

repair_and_optimize_pdf(d, dir, outfile, n, fail) ==
    LET at == Step(fail, n)
        made == [exists |-> TRUE, files |-> dir.files]
        image_paths == {i \in 1..n : 2 * i + 1 < at}
        written == image_paths \cup (IF fail[1] = "save_partial" THEN {fail[2]} ELSE {})
        saved == [made EXCEPT !.files = @ \cup written]
        out == CASE at < 2 * n + 3 -> outfile
                 [] at = 2 * n + 3 -> "empty"
                 [] at = 2 * n + 4 -> "partial"
                 [] OTHER -> "complete"
        unlinked == {i \in image_paths : 2 * n + 5 + i < at}
        cleaned == [saved EXCEPT !.files = @ \ unlinked]
        raised == Raises(at, n, cleaned.files)
    IN  IF raised
        THEN [raised |-> TRUE, msg |-> "Failed to optimize PDF", temp |-> CleanUpOnError(cleaned),
              out |-> out, path |-> NoPath, failed_at |-> IF at < 3 * n + 7 THEN fail[1] ELSE "rmdir",
              pages |-> Cardinality(image_paths)]
        ELSE [raised |-> FALSE, msg |-> Null, temp |-> Absent,
              out |-> out, path |-> OptimizedPath(d), failed_at |-> "none",
              pages |-> Cardinality(image_paths)]

\* ------------------------------------------------------------------ main
NewRecord(d) ==
    [filename |-> d, status |-> "pending", error |-> Null,
     optimized_path |-> NoPath, output_path |-> NoPath, processing_time |-> Null]

\* Line 184.
SetOptimizedDropped(rec, path) == rec

SetOptimized(rec, path) == [rec EXCEPT !.optimized_path = path]

\* Lines 186-187, 229-230 and 236-237.
SetFailed(rec, status, e) == [rec EXCEPT !.status = status, !.error = e]

\* Lines 223-224.
SetSuccess(rec, path) == [rec EXCEPT !.output_path = path, !.status = "success"]

\* Line 242.
SetProcessingTimeSkipped(rec) == rec

SetProcessingTime(rec) == [rec EXCEPT !.processing_time = "elapsed"]

\* Lines 188, 225 and 231.
CountNothing(summary, counter) == summary

Count(summary, counter) == [summary EXCEPT ![counter] = @ + 1]

\* Lines 190 and 243.
AppendRecord(summary, ref) == [summary EXCEPT !.files = Append(@, ref)]

\* Line 191: continue leaves the outer try block through its finally clause.
AfterRepairFailureFallThrough == "upload"

AfterRepairFailure == "finally"

NoOutput == [state |-> "absent", content |-> <<>>]

\* The service issues one identifier per submission and never reuses one.
JobId(d) == 300 + d

\* What the current optimizer call was given and produced: the number of
\* pages of the source, the step made to fail, whether the scratch directory
\* held another file, and the number of pages put into the optimized file.
NoSource == [pages |-> 0, fault |-> "unset", stale |-> FALSE, out_pages |-> 0]

\* Line 119: get_job_results starts every call with an empty list.
KeptPages == pages

NoPagesYet == <<>>

\* The locals of a second call of is_job_complete and get_job_results with
\* the job id main holds; no such call is under way.
NoAgain == [pc |-> "idle", status |-> "NONE", pages |-> <<>>, next_token |-> None]

NoJob == [id |-> 0, key |-> 0, status |-> "NONE", chain |-> <<>>, tokens |-> <<>>]

InitMain ==
    /\ pc = "main"
    /\ pdf_files = 0
    /\ idx = 0
    /\ heap = <<>>
    /\ processing_summary =
           [total_files |-> 0, successful |-> 0, repair_failures |-> 0,
            textract_failures |-> 0, files |-> <<>>, pipeline_end |-> Null]
    /\ log_file = <<>>
    /\ exc = Null
    /\ escaping = FALSE
    /\ pdf_temp_dir = Absent
    /\ optimized_file = "absent"
    /\ output_file = NoOutput
    /\ s3_object = FALSE
    /\ job = NoJob
    /\ job_id = 0
    /\ pages = <<>>
    /\ again = NoAgain
    /\ next_token = None
    /\ trace = <<>>
    /\ requests = <<>>
    /\ optimizer = "none"
    /\ consoleFault = FALSE
    /\ source = NoSource

\* No call of enhance_pdf is under way.
EnhanceIdle ==
    /\ enh_pc = "idle"
    /\ enh_images = <<>>
    /\ enh_image_paths = <<>>
    /\ enh_output = <<>>
    /\ enh_returned = Null
    /\ enh_fault = FALSE

Init == InitMain /\ EnhanceIdle

\* Lines 141-162: list the input directory and return at once when it is empty.
MainStart ==
    /\ pc = "main"
    /\ \E n \in 0..MaxDocs :
        /\ pdf_files' = n
        /\ processing_summary' = [processing_summary EXCEPT !.total_files = n]
        /\ pc' = IF n = 0 THEN "returned" ELSE "for"
    /\ UNCHANGED <<idx, heap, log_file, exc, escaping, pdf_temp_dir, optimized_file,
                   output_file, s3_object, job, job_id, pages, next_token,
                   trace, requests, optimizer, consoleFault>>
    /\ UNCHANGED source
    /\ UNCHANGED <<enhance_vars, again>>

\* The except clause that receives an exception raised in a region of the loop
\* body: the two inner try blocks, the rest of the outer try block (the inner
\* handlers included), and the outer handler itself, which nothing encloses.
HandlerClientErrorsOnly(region) ==
    CASE region = "repair" -> "repair_except"
      [] region \in {"body", "repair_except", "textract_except"} -> "outer_except"
      [] OTHER -> "propagate"

HandlerTextractUncaught(region) ==
    CASE region = "repair" -> "repair_except"
      [] region \in {"body", "textract", "repair_except", "textract_except"} -> "outer_except"
      [] OTHER -> "propagate"

Handler(region) ==
    CASE region = "repair" -> "repair_except"
      [] region = "textract" -> "textract_except"
      [] region \in {"body", "repair_except", "textract_except"} -> "outer_except"
      [] OTHER -> "propagate"

\* An exception with message msg is raised in region.  One that no except clause
\* receives leaves the loop through the finally clause.
Raise(region, msg) ==
    /\ exc' = msg
    /\ pc' = IF Handler(region) = "propagate" THEN "finally" ELSE Handler(region)
    /\ escaping' = (escaping \/ Handler(region) = "propagate")

\* Lines 164-179: the next document; its record, and the banner prints.
ForNext ==
    /\ pc = "for"
    /\ idx < pdf_files
    /\ idx' = idx + 1
    /\ heap' = Append(heap, NewRecord(idx + 1))
    /\ \E dir \in TempDirStates, old \in {"absent", "old"} :
        /\ pdf_temp_dir' = dir
        /\ optimized_file' = old
    /\ output_file' = NoOutput
    /\ s3_object' = FALSE
    /\ job' = NoJob
    /\ job_id' = 0
    /\ pages' = NoPagesYet
    /\ next_token' = None
    /\ requests' = <<>>
    /\ optimizer' = "none"
    /\ source' = NoSource
    /\ \E ok \in BOOLEAN :
        /\ consoleFault' = (consoleFault \/ ~ok)
        /\ trace' = IF ok THEN <<>> ELSE <<"print_raise">>
        /\ IF ok
           THEN pc' = "repair" /\ UNCHANGED <<exc, escaping>>
           ELSE Raise("body", "OSError")
    /\ UNCHANGED <<pdf_files, processing_summary, log_file>>
    /\ UNCHANGED <<enhance_vars, again>>

\* Lines 182-184: the optimizer call and, when it returns, the record's path.
Repair ==
    /\ pc = "repair"
    /\ \E n \in 0..MaxPages :
        \E fail \in FailPoints(n) :
            LET r == repair_and_optimize_pdf(idx, pdf_temp_dir, optimized_file, n, fail)
            IN  /\ pdf_temp_dir' = r.temp
                /\ optimized_file' = r.out
                /\ optimizer' = IF r.raised THEN "raised" ELSE "ok"
                /\ source' = [pages |-> n, fault |-> fail[1],
                              stale |-> pdf_temp_dir.files # {}, out_pages |-> r.pages]
                /\ consoleFault' = (consoleFault \/ r.failed_at = "print")
                /\ trace' = trace \o <<"optimize_call">>
                                \o (IF r.failed_at = "print" THEN <<"print_raise">> ELSE <<>>)
                                \o <<IF r.raised THEN "optimize_raise" ELSE "optimize_ok">>
                /\ IF r.raised
                   THEN Raise("repair", r.msg) /\ heap' = heap
                   ELSE /\ heap' = [heap EXCEPT ![idx] = SetOptimized(@, r.path)]
                        /\ pc' = "upload"
                        /\ UNCHANGED <<exc, escaping>>
    /\ UNCHANGED <<pdf_files, idx, processing_summary, log_file, output_file, s3_object,
                   job, job_id, pages, next_token, requests>>
    /\ UNCHANGED <<enhance_vars, again>>

\* Lines 185-191: the handler of the optimizer's failure.  Its continue leaves
\* the outer try block, so the finally clause runs next.
RepairExcept ==
    /\ pc = "repair_except"
    /\ heap' = [heap EXCEPT ![idx] = SetFailed(@, "repair_failed", exc)]
    /\ \E ok \in BOOLEAN :
        /\ consoleFault' = (consoleFault \/ ~ok)
        /\ trace' = IF ok THEN trace ELSE Append(trace, "print_raise")
        /\ IF ok
           THEN /\ processing_summary' =
                       AppendRecord(Count(processing_summary, "repair_failures"), idx)
                /\ pc' = AfterRepairFailure
                /\ exc' = Null
                /\ escaping' = escaping
           ELSE /\ processing_summary' = Count(processing_summary, "repair_failures")
                /\ Raise("repair_except", "OSError")
    /\ UNCHANGED <<pdf_files, idx, log_file, pdf_temp_dir, optimized_file, output_file,
                   s3_object, job, job_id, pages, next_token,
                   requests, optimizer>>
    /\ source' = NoSource
    /\ UNCHANGED <<enhance_vars, again>>

\* Lines 196-197 and 104-106: upload_to_s3.
Upload ==
    /\ pc = "upload"
    /\ \E o \in {"ok", "transfer", "print"} :
        /\ s3_object' = (s3_object \/ o # "transfer")
        /\ consoleFault' = (consoleFault \/ o = "print")
        /\ trace' = trace \o <<"upload_call">>
                        \o (IF o = "print" THEN <<"print_raise">> ELSE <<>>)
                        \o <<IF o = "ok" THEN "upload_ok" ELSE "upload_raise">>
        /\ IF o = "ok"
           THEN pc' = "start" /\ UNCHANGED <<exc, escaping>>
           ELSE Raise("textract", IF o = "transfer" THEN "ClientError" ELSE "OSError")
    /\ UNCHANGED <<pdf_files, idx, heap, processing_summary, log_file, pdf_temp_dir,
                   optimized_file, output_file, job, job_id, pages,
                   next_token, requests, optimizer>>
    /\ source' = NoSource
    /\ UNCHANGED <<enhance_vars, again>>

\* Lines 200-201 and 108-112: start_textract_job; the service issues a fresh id.
StartJob ==
    /\ pc = "start"
    /\ \E o \in {"ok", "submit", "print"} :
        /\ consoleFault' = (consoleFault \/ o = "print")
        /\ trace' = trace \o <<"start_call", IF o = "submit" THEN "start_raise" ELSE "start_ok">>
                        \o (IF o = "print" THEN <<"print_raise">> ELSE <<>>)
        /\ IF o = "submit"
           THEN UNCHANGED <<job, job_id>>
           ELSE /\ job' = [id |-> JobId(idx), key |-> idx, status |-> "IN_PROGRESS",
                           chain |-> <<>>, tokens |-> <<>>]
                /\ job_id' = JobId(idx)
        /\ IF o = "ok"
           THEN pc' = "poll" /\ UNCHANGED <<exc, escaping>>
           ELSE Raise("textract", IF o = "submit" THEN "ClientError" ELSE "OSError")
    /\ UNCHANGED <<pdf_files, idx, heap, processing_summary, log_file, pdf_temp_dir,
                   optimized_file, output_file, s3_object, pages, next_token,
                   requests, optimizer>>
    /\ UNCHANGED source
    /\ UNCHANGED <<enhance_vars, again>>

\* The recognition service finishes the job.  A succeeded job has one to
\* MaxResultPages result pages linked by distinct continuation tokens.  The
\* client sees the job only through its polls, so the step is taken while
\* the client waits.
ServiceAdvance ==
    /\ pc = "poll"
    /\ job.status = "IN_PROGRESS"
    /\ \/ job' = [job EXCEPT !.status = "FAILED"]
       \/ \E len \in 1..MaxResultPages :
            \E contents \in PageContents(len), toks \in TokenChains(len) :
                /\ job' = [job EXCEPT !.status = "SUCCEEDED", !.chain = contents,
                                      !.tokens = toks]
    /\ UNCHANGED <<pc, pdf_files, idx, heap, processing_summary, log_file, exc, escaping,
                   pdf_temp_dir, optimized_file, output_file, s3_object, job_id, pages, next_token, trace, requests, optimizer,
                   consoleFault>>
    /\ UNCHANGED source
    /\ UNCHANGED <<enhance_vars, again>>

\* textract.get_document_text_detection: the first page when no token is sent,
\* else the page that follows the one that carried the token.
Respond(j, tok) ==
    IF j.status # "SUCCEEDED"
    THEN [JobStatus |-> j.status, Blocks |-> 0, NextToken |-> None]
    ELSE LET at == IF tok = None
                   THEN 1
                   ELSE 1 + (CHOOSE i \in 1..Len(j.tokens) : j.tokens[i] = tok)
         IN  [JobStatus |-> j.status, Blocks |-> j.chain[at],
              NextToken |-> IF at <= Len(j.tokens) THEN j.tokens[at] ELSE None]

PollEvent(status) ==
    CASE status = "SUCCEEDED" -> "poll_SUCCEEDED"
      [] status = "FAILED" -> "poll_FAILED"
      [] OTHER -> "poll_IN_PROGRESS"

\* Lines 206-213: what the wait loop does with a status.
WaitDecisionAnyBreak(status) ==
    IF status = "FAILED" THEN "raise" ELSE "break"

WaitDecisionGivesUp(status) ==
    IF status = "SUCCEEDED" THEN "break" ELSE "raise"

WaitDecision(status) ==
    IF status = "SUCCEEDED" THEN "break"
    ELSE IF status = "FAILED" THEN "raise"
    ELSE "sleep"

\* The trace of the current document's calls records a run of polls that all
\* returned IN_PROGRESS once.
Waiting(tr) == tr # <<>> /\ tr[Len(tr)] = "poll_IN_PROGRESS"

\* Lines 204-213 and 114-116: one turn of the wait loop.
Poll ==
    /\ pc = "poll"
    /\ \E o \in {"ok", "fails", "print"} :
        LET status == Respond(job, None).JobStatus
            decision == WaitDecision(status)
        IN  /\ o = "print" => decision # "raise"
            /\ consoleFault' = (consoleFault \/ o = "print")
            /\ trace' = IF o = "fails" THEN trace \o <<"poll_call", "poll_raise">>
                        ELSE IF decision = "sleep" /\ Waiting(trace) THEN trace
                        ELSE trace \o <<"poll_call", PollEvent(status)>>
                                   \o (IF o = "print" THEN <<"print_raise">> ELSE <<>>)
            /\ CASE o = "fails" -> Raise("textract", "ClientError")
                 [] o = "print" -> Raise("textract", "OSError")
                 [] o = "ok" /\ decision = "raise" -> Raise("textract", "Textract job failed")
                 [] o = "ok" /\ decision = "break" ->
                        pc' = "results" /\ UNCHANGED <<exc, escaping>>
                 [] OTHER -> pc' = "poll" /\ UNCHANGED <<exc, escaping>>
    /\ UNCHANGED <<pdf_files, idx, heap, processing_summary, log_file, pdf_temp_dir,
                   optimized_file, output_file, s3_object, job, job_id,
                   pages, next_token, requests, optimizer>>
    /\ UNCHANGED source
    /\ UNCHANGED <<enhance_vars, again>>

\* Line 128.
AccumulateInFront(got, response) == <<response>> \o got

Accumulate(got, response) == Append(got, response)

\* A continuation token is a non-empty string; None and "" are falsy (lines 123, 130).
Truthy(tok) == tok # None

\* Lines 122-131: one turn of get_job_results' loop.  Lines 119-120 give pages
\* and next_token the values they hold when the first turn starts.
GetPage ==
    /\ pc = "results"
    /\ \E o \in {"ok", "fails"} :
        LET sent == IF Truthy(next_token) THEN next_token ELSE None
            response == Respond(job, sent)
            first == IF requests = <<>> THEN <<"results_call">> ELSE <<>>
        IN  /\ requests' = Append(requests, sent)
            /\ IF o = "fails"
               THEN /\ Raise("textract", "ClientError")
                    /\ trace' = trace \o first \o <<"results_raise">>
                    /\ UNCHANGED <<pages, next_token>>
               ELSE /\ pages' = Accumulate(pages, response)
                    /\ next_token' = response.NextToken
                    /\ IF Truthy(response.NextToken)
                       THEN pc' = "results" /\ trace' = trace \o first
                       ELSE pc' = "save" /\ trace' = trace \o first \o <<"results_ok">>
                    /\ UNCHANGED <<exc, escaping>>
    /\ UNCHANGED <<pdf_files, idx, heap, processing_summary, log_file, pdf_temp_dir,
                   optimized_file, output_file, s3_object, job, job_id,
                   optimizer, consoleFault>>
    /\ UNCHANGED source
    /\ UNCHANGED <<enhance_vars, again>>

\* The job, its identifier and the pages are not used again once line 221 has
\* run or the Textract try block has been left.
Discard ==
    /\ job' = NoJob
    /\ job_id' = 0
    /\ pages' = NoPagesYet
    /\ next_token' = None
    /\ requests' = <<>>

\* Lines 219-226 are inside the try block that starts at line 194.
WriteRegionAfterTry == "body"

WriteRegion == "textract"

\* Lines 219-226: write the result file, then mark the record and count it.
Save ==
    /\ pc = "save"
    /\ \E o \in {"ok", "open", "dump", "print"} :
        /\ consoleFault' = (consoleFault \/ o = "print")
        /\ trace' = trace \o <<"write_output">>
                        \o (IF o = "print" THEN <<"print_raise">> ELSE <<>>)
        /\ output_file' = CASE o = "open" -> output_file
                            [] o = "dump" -> [state |-> "partial", content |-> <<>>]
                            [] OTHER -> [state |-> "complete", content |-> pages]
        /\ IF o \in {"open", "dump"}
           THEN UNCHANGED <<heap, processing_summary>>
           ELSE /\ heap' = [heap EXCEPT ![idx] = SetSuccess(@, OutputPath(idx))]
                /\ processing_summary' = Count(processing_summary, "successful")
        /\ IF o = "ok"
           THEN pc' = "finally" /\ UNCHANGED <<exc, escaping>>
           ELSE Raise(WriteRegion, "OSError")
    /\ Discard
    /\ UNCHANGED <<pdf_files, idx, log_file, pdf_temp_dir, optimized_file, s3_object,
                   optimizer>>
    /\ UNCHANGED source
    /\ UNCHANGED <<enhance_vars, again>>

\* Lines 228-232: the handler of the Textract try block.
TextractExcept ==
    /\ pc = "textract_except"
    /\ heap' = [heap EXCEPT ![idx] = SetFailed(@, "textract_failed", exc)]
    /\ processing_summary' = Count(processing_summary, "textract_failures")
    /\ \E ok \in BOOLEAN :
        /\ consoleFault' = (consoleFault \/ ~ok)
        /\ trace' = IF ok THEN trace ELSE Append(trace, "print_raise")
        /\ IF ok
           THEN pc' = "finally" /\ exc' = Null /\ escaping' = escaping
           ELSE Raise("textract_except", "OSError")
    /\ Discard
    /\ UNCHANGED <<pdf_files, idx, log_file, pdf_temp_dir, optimized_file, output_file,
                   s3_object, optimizer>>
    /\ UNCHANGED source
    /\ UNCHANGED <<enhance_vars, again>>

\* Lines 234-238: the handler of the outer try block.
OuterExcept ==
    /\ pc = "outer_except"
    /\ heap' = [heap EXCEPT ![idx] = SetFailed(@, "unexpected_error", exc)]
    /\ \E ok \in BOOLEAN :
        /\ consoleFault' = (consoleFault \/ ~ok)
        /\ trace' = IF ok THEN trace ELSE Append(trace, "print_raise")
        /\ IF ok
           THEN pc' = "finally" /\ exc' = Null /\ escaping' = escaping
           ELSE Raise("outer_except", "OSError")
    /\ UNCHANGED <<pdf_files, idx, processing_summary, log_file, pdf_temp_dir,
                   optimized_file, output_file, s3_object, job, job_id,
                   pages, next_token, requests, optimizer>>
    /\ UNCHANGED source
    /\ UNCHANGED <<enhance_vars, again>>

\* Lines 240-243: the finally clause, on every way out of the outer try block.
Finally ==
    /\ pc = "finally"
    /\ heap' = [heap EXCEPT ![idx] = SetProcessingTime(@)]
    /\ processing_summary' = AppendRecord(processing_summary, idx)
    /\ pc' = IF escaping THEN "escaped" ELSE "for"
    /\ UNCHANGED <<pdf_files, idx, log_file, exc, escaping, pdf_temp_dir, optimized_file,
                   output_file, s3_object, job, job_id, pages, next_token,
                   trace, requests, optimizer, consoleFault>>
    /\ UNCHANGED source
    /\ UNCHANGED <<enhance_vars, again>>

\* json.dump of the summary: every list entry is written with the fields its
\* dict holds at that moment.
Persisted(summary, h) ==
    [summary EXCEPT !.files = [i \in 1..Len(summary.files) |-> h[summary.files[i]]]]

\* Lines 246-249: pipeline_end and total_processing_time.
StampEndSkipped(summary) == summary

StampEnd(summary) == [summary EXCEPT !.pipeline_end = "stamped"]

\* Lines 246-253: after the loop, stamp the end and write the log.
Finalize ==
    /\ pc = "for"
    /\ idx = pdf_files
    /\ processing_summary' = StampEnd(processing_summary)
    /\ log_file' = Append(log_file, Persisted(processing_summary', heap))
    /\ pc' = "done"
    /\ UNCHANGED <<pdf_files, idx, heap, exc, escaping, pdf_temp_dir, optimized_file,
                   output_file, s3_object, job, job_id, pages, next_token,
                   trace, requests, optimizer, consoleFault>>
    /\ UNCHANGED source
    /\ UNCHANGED <<enhance_vars, again>>

Next ==
    \/ MainStart
    \/ ForNext
    \/ Repair
    \/ RepairExcept
    \/ Upload
    \/ StartJob
    \/ ServiceAdvance
    \/ Poll
    \/ GetPage
    \/ Save
    \/ TextractExcept
    \/ OuterExcept
    \/ Finally
    \/ Finalize

Spec == Init /\ [][Next]_vars

\* The steps of the program itself.  main is one sequential thread: whenever
\* it has a next statement it executes it.
MainNext ==
    \/ MainStart
    \/ ForNext
    \/ Repair
    \/ RepairExcept
    \/ Upload
    \/ StartJob
    \/ Poll
    \/ GetPage
    \/ Save
    \/ TextractExcept
    \/ OuterExcept
    \/ Finally
    \/ Finalize

\* The run under the assumption that every submitted job reaches a final
\* status while it is being polled.
FairSpec == Spec /\ WF_vars(MainNext) /\ WF_vars(ServiceAdvance)

\* ------------------------------------------- polling and retrieving again
\* Lines 114-116: is_job_complete called once more with main's job_id, after
\* get_job_results has returned to main.
PollAgain ==
    /\ pc = "save"
    /\ again.pc = "idle"
    /\ again' = [pc |-> "results", status |-> Respond(job, None).JobStatus,
                 pages |-> NoPagesYet, next_token |-> None]
    /\ UNCHANGED <<main_vars, enhance_vars>>

\* Lines 122-131: one turn of the loop of a second call of get_job_results.
GetPageAgain ==
    /\ again.pc = "results"
    /\ LET sent == IF Truthy(again.next_token) THEN again.next_token ELSE None
           response == Respond(job, sent)
       IN  again' = [again EXCEPT
                        !.pages = Accumulate(@, response),
                        !.next_token = response.NextToken,
                        !.pc = IF Truthy(response.NextToken) THEN "results" ELSE "done"]
    /\ UNCHANGED <<main_vars, enhance_vars>>

\* Line 133: the second call has returned; its locals are gone.
ReturnAgain ==
    /\ again.pc = "done"
    /\ again' = NoAgain
    /\ UNCHANGED <<main_vars, enhance_vars>>

\* main runs as it does; between two of its steps the job it has just
\* retrieved may be polled and retrieved a second time.
NextAwait ==
    \/ again.pc = "idle" /\ Next
    \/ PollAgain
    \/ GetPageAgain
    \/ ReturnAgain

SpecAwait == Init /\ [][NextAwait]_vars

\* ------------------------------------------------------------ enhance_pdf
\* Lines 42-45 of ocr_repair_helper.py: pages wider than this are scaled down.
WidthThreshold == 1500

\* The pages convert_from_path hands over: width and height in pixels.  For
\* every width and height of these sets the double product
\* height * (1500 / width) has the integer part of the exact quotient: the
\* ratio is a dyadic fraction, or width does not divide 1500 * height.
PageWidths == {1, 1000, 1500, 1501, 2000, 3000, 6000}
PageHeights == {1, 2, 3, 1000, 2200}
PageSizes == [width : PageWidths, height : PageHeights]

RECURSIVE PageLists(_)
PageLists(len) ==
    IF len = 0 THEN {<<>>}
    ELSE PageLists(len - 1)
            \cup {Append(l, p) : l \in {m \in PageLists(len - 1) : Len(m) = len - 1},
                                 p \in PageSizes}

\* Lines 43-44: int() truncates the product towards zero.
new_height(width, height) == (height * WidthThreshold) \div width

\* Lines 42-45: the size handed to save().  Image.resize keeps exactly the
\* size it is given.
Resized(img) ==
    IF img.width > WidthThreshold
    THEN [width |-> WidthThreshold, height |-> new_height(img.width, img.height)]
    ELSE img

InitEnhance ==
    /\ InitMain
    /\ enh_pc = "convert"
    /\ enh_images \in PageLists(MaxSourcePages)
    /\ enh_image_paths = <<>>
    /\ enh_output = <<>>
    /\ enh_returned = Null
    /\ enh_fault = FALSE

\* Line 31: convert_from_path.
EnhanceRasterize ==
    /\ enh_pc = "convert"
    /\ \E ok \in BOOLEAN :
        /\ enh_pc' = IF ok THEN "page" ELSE "except"
        /\ enh_fault' = ~ok
    /\ UNCHANGED <<enh_images, enh_image_paths, enh_output, enh_returned>>
    /\ UNCHANGED <<main_vars, again>>

\* Lines 34-54: one turn of the loop over the pages.  Pillow is outside the
\* repository: a resize to a height below 1 either raises or yields an image of
\* that height.
EnhancePage ==
    /\ enh_pc = "page"
    /\ Len(enh_image_paths) < Len(enh_images)
    /\ LET img == enh_images[Len(enh_image_paths) + 1]
           grayscale == Resized(img)
       IN  \E o \in {"ok", "resize_raises", "save_raises"} :
            /\ o = "resize_raises" => grayscale.height < 1
            /\ enh_fault' = (o = "save_raises")
            /\ IF o = "ok"
               THEN /\ enh_image_paths' = Append(enh_image_paths, grayscale)
                    /\ enh_pc' = "page"
               ELSE /\ enh_image_paths' = enh_image_paths
                    /\ enh_pc' = "except"
    /\ UNCHANGED <<enh_images, enh_output, enh_returned>>
    /\ UNCHANGED <<main_vars, again>>

\* Lines 57-64: reassemble the saved pages, and return True.
EnhanceWrite ==
    /\ enh_pc = "page"
    /\ Len(enh_image_paths) = Len(enh_images)
    /\ \E ok \in BOOLEAN :
        /\ enh_fault' = ~ok
        /\ IF ok
           THEN /\ enh_output' = enh_image_paths
                /\ enh_returned' = "True"
                /\ enh_pc' = "done"
           ELSE /\ enh_output' = enh_output
                /\ enh_returned' = enh_returned
                /\ enh_pc' = "except"
    /\ UNCHANGED <<enh_images, enh_image_paths>>
    /\ UNCHANGED <<main_vars, again>>

\* Lines 66-68: any exception makes the function return False.
EnhanceExcept ==
    /\ enh_pc = "except"
    /\ enh_returned' = "False"
    /\ enh_pc' = "done"
    /\ UNCHANGED <<enh_images, enh_image_paths, enh_output, enh_fault>>
    /\ UNCHANGED <<main_vars, again>>

NextEnhance ==
    \/ EnhanceRasterize
    \/ EnhancePage
    \/ EnhanceWrite
    \/ EnhanceExcept

SpecEnhance == InitEnhance /\ [][NextEnhance]_vars

\* ------------------------------------------------------------ properties
Has(ev) == \E i \in DOMAIN trace : trace[i] = ev

CountOf(ev) == Cardinality({i \in DOMAIN trace : trace[i] = ev})

LastEvent == IF trace = <<>> THEN "none" ELSE trace[Len(trace)]

\* The loop has finished with the current document.
DocEnded == idx >= 1 /\ pc \in {"for", "done", "escaped"}

NumberOf(status) == Cardinality({d \in DOMAIN heap : heap[d].status = status})

RemoteFailed ==
    \/ Has("upload_raise")
    \/ Has("start_raise")
    \/ Has("poll_raise")
    \/ Has("poll_FAILED")
    \/ Has("results_raise")

\* C1: at the completion of a run in which only pipeline stages fail, the
\* files list of the written summary holds exactly one record for each input
\* document and no other: len(files) == total_files == the number of documents.
C1_OneRecordPerDocument ==
    (pc = "done" /\ ~consoleFault) =>
        LET summary == log_file[1]
        IN  /\ summary.total_files = pdf_files
            /\ Len(summary.files) = summary.total_files
            /\ \A d \in 1..pdf_files :
                   Cardinality({i \in DOMAIN summary.files :
                                    summary.files[i].filename = d}) = 1

\* C2: whatever stages fail, no exception leaves the per-document loop: an
\* exception in flight is at one of the two inner handlers, the loop is left
\* only when every document has been through it, and a run that ends has
\* written the summary.
C2_NoExceptionLeavesLoop ==
    ~consoleFault =>
        /\ ~escaping
        /\ pc # "escaped"
        /\ exc # Null => pc \in {"repair_except", "textract_except"}
        /\ pc = "for" => Len(heap) = idx /\ \A d \in 1..idx : heap[d].status # "pending"
        /\ pc = "done" => idx = pdf_files /\ Len(log_file) = 1

C2_EveryDocumentFails ==
    /\ pc = "done"
    /\ ~consoleFault
    /\ pdf_files >= 2
    /\ Len(log_file) = 1
    /\ \A d \in 1..pdf_files : heap[d].status \in {"repair_failed", "textract_failed"}
    /\ NumberOf("repair_failed") >= 1
    /\ NumberOf("textract_failed") >= 1

\* C3: when the optimizer fails for a document, none of upload_to_s3,
\* start_textract_job, is_job_complete and get_job_results is called for it,
\* its optimized_path and output_path stay null, and its record ends as
\* repair_failed.
C3_RepairFailureStopsDocument ==
    optimizer = "raised" =>
        /\ ~Has("upload_call") /\ ~Has("start_call")
        /\ ~Has("poll_call") /\ ~Has("results_call")
        /\ ~s3_object /\ job = NoJob /\ output_file = NoOutput
        /\ heap[idx].optimized_path = NoPath
        /\ heap[idx].output_path = NoPath
        /\ (DocEnded /\ LastEvent = "optimize_raise") => heap[idx].status = "repair_failed"

C3_RepairFailed ==
    /\ DocEnded
    /\ optimizer = "raised"
    /\ LastEvent = "optimize_raise"
    /\ heap[idx].status = "repair_failed"
    /\ idx = 2
    /\ heap[1].status = "success"

\* C4: when the optimizer succeeds and upload, submission or recognition
\* fails, the record has optimized_path set to the optimized document's path
\* and output_path null.
C4_RemoteFailureKeepsOptimizedPath ==
    (optimizer = "ok" /\ RemoteFailed) =>
        /\ heap[idx].optimized_path = OptimizedPath(idx)
        /\ heap[idx].output_path = NoPath

C4_RecognitionFailed ==
    /\ DocEnded
    /\ optimizer = "ok"
    /\ Has("poll_FAILED")
    /\ heap[idx].status = "textract_failed"
    /\ heap[idx].optimized_path = OptimizedPath(idx)

\* C5: at the completion of a run in which only pipeline stages fail,
\* total_files is the number of input documents and successful,
\* repair_failures and textract_failures are the numbers of documents that
\* ended as success, repair_failed and textract_failed; the failed ones have
\* an error and the successful ones an output_path.
C5_CountersMatchOutcomes ==
    /\ pc = "returned" =>
           /\ pdf_files = 0
           /\ processing_summary.total_files = 0
           /\ processing_summary.successful = 0
           /\ processing_summary.repair_failures = 0
           /\ processing_summary.textract_failures = 0
    /\ (pc = "done" /\ ~consoleFault) =>
           LET summary == log_file[1]
           IN  /\ summary.total_files = pdf_files
               /\ Len(heap) = pdf_files
               /\ summary.successful = NumberOf("success")
               /\ summary.repair_failures = NumberOf("repair_failed")
               /\ summary.textract_failures = NumberOf("textract_failed")
               /\ \A i \in DOMAIN summary.files :
                      LET rec == summary.files[i]
                      IN  /\ rec = heap[rec.filename]
                          /\ rec.status \in {"repair_failed", "textract_failed"}
                                 => rec.error # Null
                          /\ rec.status = "success" => rec.output_path # NoPath

C5_BatchOfThree ==
    /\ pc = "done"
    /\ ~consoleFault
    /\ pdf_files = 3
    /\ heap[1].status = "success" /\ heap[1].output_path # NoPath
    /\ heap[2].status = "repair_failed" /\ heap[2].error = "Failed to optimize PDF"
    /\ heap[3].status = "textract_failed" /\ heap[3].error = "Textract job failed"
    /\ log_file[1].total_files = 3
    /\ log_file[1].successful = 1
    /\ log_file[1].repair_failures = 1
    /\ log_file[1].textract_failures = 1

\* C6: get_job_results asks for the first page without a token and for each
\* further page with the token of the response before it, until a response
\* carries none; what it returns is the service's chain of pages, each page
\* once and in the service's order.
C6_PagesFollowTokenChain ==
    pc \in {"results", "save"} =>
        /\ job.status = "SUCCEEDED"
        /\ Len(pages) <= Len(job.chain)
        /\ \A i \in DOMAIN pages : pages[i].Blocks = job.chain[i]
        /\ requests # <<>> => requests[1] = None
        /\ \A i \in 2..Len(requests) :
               requests[i] # None /\ requests[i] = pages[i - 1].NextToken
        /\ \A i \in 1..(Len(pages) - 1) : pages[i].NextToken # None
        /\ pc = "results" => Len(requests) = Len(pages)
        /\ pc = "save" =>
               /\ Len(pages) = Len(job.chain)
               /\ Len(requests) = Len(pages)
               /\ pages[Len(pages)].NextToken = None

C6_ThreePagesReturned ==
    /\ pc = "save"
    /\ Len(pages) = 3
    /\ pages[1].Blocks = 3 /\ pages[2].Blocks = 2 /\ pages[3].Blocks = 1
    /\ requests = <<None, 2, 1>>

\* C7: within one document the stages run in strict order: upload_to_s3 is
\* called only after the optimizer returned, start_textract_job only after the
\* upload returned, the first poll only after the job id was obtained, and
\* result retrieval and the writing of the output only after a poll returned
\* SUCCEEDED (the writing only after the results were returned).
C7_StageOrder ==
    \A i \in DOMAIN trace :
        trace[i] \in {"upload_call", "start_call", "poll_call", "results_call", "write_output"} =>
            LET seen == {trace[j] : j \in 1..(i - 1)}
            IN  /\ trace[i] = "upload_call" => "optimize_ok" \in seen
                /\ trace[i] = "start_call" => "upload_ok" \in seen
                /\ trace[i] = "poll_call" => "start_ok" \in seen
                /\ trace[i] = "results_call" => "poll_SUCCEEDED" \in seen
                /\ trace[i] = "write_output" =>
                       "poll_SUCCEEDED" \in seen /\ "results_ok" \in seen
                /\ seen \cap {"optimize_raise", "upload_raise", "start_raise", "poll_raise",
                              "poll_FAILED", "results_raise"} = {}

C7_AllStagesRan ==
    /\ pc = "finally"
    /\ heap[idx].status = "success"
    /\ Has("poll_IN_PROGRESS")
    /\ Has("write_output")

\* C8: every record starts as pending and its status is changed once, to
\* repair_failed, textract_failed, success or unexpected_error: a status other
\* than pending is never changed again, and no record of the written summary
\* is pending.
C8_TerminalStatusIsFinal ==
    /\ [][/\ \A d \in DOMAIN heap : heap[d].status # "pending" => heap'[d].status = heap[d].status
          /\ \A d \in DOMAIN heap' \ DOMAIN heap : heap'[d].status = "pending"]_vars
    /\ [](\A d \in DOMAIN heap :
              heap[d].status \in {"pending", "repair_failed", "textract_failed", "success",
                                  "unexpected_error"})
    /\ [](pc = "done" => \A i \in DOMAIN log_file[1].files :
                              log_file[1].files[i].status # "pending")

\* C9: after a successful optimization a failure of the upload, of the
\* submission, or a job that reports FAILED ends the document as
\* textract_failed with an error message and adds exactly one to
\* textract_failures; upload_to_s3 and start_textract_job are called at most
\* once for a document.
C9_RemoteFailureIsFinal ==
    /\ CountOf("upload_call") <= 1
    /\ CountOf("start_call") <= 1
    /\ (DocEnded /\ optimizer = "ok"
            /\ LastEvent \in {"upload_raise", "start_raise", "poll_FAILED"})
           => /\ heap[idx].status = "textract_failed"
              /\ heap[idx].error # Null
    /\ ~consoleFault =>
           processing_summary.textract_failures = NumberOf("textract_failed")

C9_SubmissionFailed ==
    /\ DocEnded
    /\ ~consoleFault
    /\ LastEvent = "start_raise"
    /\ heap[idx].status = "textract_failed"
    /\ heap[idx].error = "ClientError"
    /\ idx = 2
    /\ heap[1].status = "textract_failed"
    /\ processing_summary.textract_failures = 2

\* C10: once repair_and_optimize_pdf has finished for a document, by a return
\* or by a raise, the document's scratch subdirectory does not exist, with
\* whatever page images and other files it held.
C10_ScratchRemoved ==
    optimizer # "none" => pdf_temp_dir = Absent

C10_FailedAfterPagesSaved ==
    /\ pc = "repair_except"
    /\ optimizer = "raised"
    /\ optimized_file = "partial"
    /\ pdf_temp_dir = Absent

\* C11: an optimized-document file written by this run exists only if the
\* optimizer succeeded for its source in this run: a call of
\* repair_and_optimize_pdf that raises, in reassembly or in the cleanup after
\* it, leaves no optimized file that it created.
C11_OptimizedFileImpliesSuccess ==
    optimized_file \in {"empty", "partial", "complete"} => optimizer = "ok"

\* C12: the summary is written at most once in a run.  A run over one or more
\* documents that gets through its loop writes it exactly once, at its end:
\* what is written carries pipeline_end and a record of every document and is
\* the summary as the run leaves it, and nothing is written while a document
\* is being processed.  A run over no documents returns without writing it.
C12_SummaryPersistedOnceAfterLoop ==
    /\ Len(log_file) <= 1
    /\ pc # "done" => log_file = <<>>
    /\ pc = "returned" => pdf_files = 0
    /\ pc = "done" =>
           /\ Len(log_file) = 1
           /\ pdf_files >= 1
           /\ idx = pdf_files
           /\ log_file[1] = Persisted(processing_summary, heap)
           /\ log_file[1].pipeline_end = "stamped"
           /\ \A d \in 1..pdf_files :
                  \E i \in DOMAIN log_file[1].files : log_file[1].files[i].filename = d

C12_SummaryWrittenForThree ==
    /\ pc = "done"
    /\ pdf_files = 3
    /\ Len(log_file) = 1
    /\ log_file[1].pipeline_end = "stamped"
    /\ Len(log_file[1].files) = 3

\* C12 for batches of any size: a run over any number of documents, zero
\* included, that has ended has written the summary exactly once, with
\* pipeline_end and a record of every document, and nothing is written while
\* a document is being processed.
C12_SummaryPersistedForAnyBatch ==
    /\ Len(log_file) <= 1
    /\ pc \in {"done", "returned"} => Len(log_file) = 1
    /\ pc \notin {"done", "returned", "escaped"} => log_file = <<>>
    /\ Len(log_file) = 1 =>
           /\ pc = "done"
           /\ idx = pdf_files
           /\ log_file[1].pipeline_end = "stamped"
           /\ \A d \in 1..pdf_files :
                  \E i \in DOMAIN log_file[1].files : log_file[1].files[i].filename = d

\* C13: a source of zero pages, when no step of the optimizer is made to fail
\* and the scratch directory holds no other file, comes out of
\* repair_and_optimize_pdf as a complete optimized file of zero pages: the
\* call returns, main records the path and goes on to the upload, and the
\* record is not repair_failed.  The call fails when img2pdf rejects the empty
\* list (the optimized file is then left empty), and a record is repair_failed
\* only after its optimizer call raised.
C13_EmptySourceIsNoFailure ==
    /\ (source.fault # "unset" /\ source.pages = 0) =>
           /\ (source.fault = "none" /\ ~source.stale) =>
                  /\ optimizer = "ok"
                  /\ pc = "upload"
                  /\ optimized_file = "complete"
                  /\ source.out_pages = 0
                  /\ heap[idx].status = "pending"
                  /\ heap[idx].optimized_path = OptimizedPath(idx)
           /\ source.fault = "img2pdf" =>
                  /\ optimizer = "raised"
                  /\ pc = "repair_except"
                  /\ optimized_file = "empty"
           /\ pc = "repair_except" => (source.fault # "none" \/ source.stale)
    /\ (idx >= 1 /\ heap[idx].status = "repair_failed") => optimizer = "raised"

C13_EmptySourceOptimized ==
    /\ pc = "upload"
    /\ source.pages = 0
    /\ source.fault = "none"
    /\ optimizer = "ok"
    /\ optimized_file = "complete"
    /\ source.out_pages = 0

\* C14: in enhance_pdf every page wider than 1500 is written with width
\* exactly 1500 and a height that is at least 1 and less than one pixel away
\* from height * 1500 / width, and a page of width 1500 or less is written
\* with its own size: a call in which no library step fails returns True with
\* every page written so.
C14_WidePagesScaledToThreshold ==
    (enh_pc = "done" /\ ~enh_fault) =>
        /\ enh_returned = "True"
        /\ Len(enh_output) = Len(enh_images)
        /\ \A i \in DOMAIN enh_output :
               LET w == enh_images[i].width
                   h == enh_images[i].height
                   out == enh_output[i]
               IN  IF w > WidthThreshold
                   THEN /\ out.width = WidthThreshold
                        /\ out.height >= 1
                        /\ out.height * w <= h * WidthThreshold
                        /\ h * WidthThreshold < (out.height + 1) * w
                   ELSE out = enh_images[i]

C16_EveryRecordHasProcessingTime ==
    /\ \A d \in DOMAIN heap :
           (d < idx \/ DocEnded) => heap[d].processing_time # Null
    /\ pc = "done" =>
           \A i \in DOMAIN log_file[1].files :
               log_file[1].files[i].processing_time # Null

C16_AllOutcomesTimed ==
    /\ pc = "done"
    /\ pdf_files = 3
    /\ Len(log_file[1].files) = 4
    /\ log_file[1].files[1].status = "repair_failed"
    /\ log_file[1].files[2].status = "repair_failed"
    /\ log_file[1].files[1].processing_time = "elapsed"
    /\ log_file[1].files[3].status = "unexpected_error"
    /\ log_file[1].files[4].status = "success"

\* C17: the wait loop is left for the retrieval of results only when a poll
\* returned SUCCEEDED and with "Textract job failed" only when a poll returned
\* FAILED; while the job is IN_PROGRESS and the calls succeed the loop polls
\* again, any number of times.  When every submitted job reaches a final
\* status, the run ends, and when it has ended every document that was
\* started has a status other than pending; a run that ends without an
\* exception from the console has written its summary or had no documents.
C17_WaitLoopEndsWithTheJob ==
    /\ [][pc = "poll" =>
            /\ pc' = "results" => job.status = "SUCCEEDED"
            /\ (pc' = "textract_except" /\ exc' = "Textract job failed")
                    => job.status = "FAILED"
            /\ (job.status = "IN_PROGRESS" /\ job' = job)
                    => pc' \in {"poll", "textract_except"}
            /\ (job.status = "IN_PROGRESS" /\ pc' = "textract_except")
                    => exc' \in {"ClientError", "OSError"}]_vars
    /\ <>(pc \in {"done", "returned", "escaped"})
    /\ [](pc \in {"done", "returned", "escaped"} =>
              \A d \in DOMAIN heap : heap[d].status # "pending")
    /\ [](pc = "escaped" => consoleFault)
    /\ [](pc = "done" => Len(log_file) = 1)

C17_WaitedAndFinished ==
    /\ pc = "done"
    /\ pdf_files = 2
    /\ Has("poll_IN_PROGRESS")
    /\ Has("poll_SUCCEEDED")
    /\ heap[1].status = "textract_failed"
    /\ heap[1].error = "Textract job failed"
    /\ heap[2].status = "success"

\* C18: every record of the written summary is consistent: output_path is set
\* exactly when the status is success, error is set exactly when the status is
\* repair_failed, textract_failed or unexpected_error, and optimized_path is
\* unset when the status is repair_failed and set when it is success or
\* textract_failed.
C18_PersistedRecordsConsistent ==
    pc = "done" =>
        \A i \in DOMAIN log_file[1].files :
            LET rec == log_file[1].files[i]
            IN  /\ rec.output_path # NoPath <=> rec.status = "success"
                /\ rec.error # Null <=>
                       rec.status \in {"repair_failed", "textract_failed", "unexpected_error"}
                /\ rec.status = "repair_failed" => rec.optimized_path = NoPath
                /\ rec.status \in {"success", "textract_failed"} =>
                       rec.optimized_path # NoPath

\* C19: when the optimizer has succeeded, a failure of the upload, of the
\* submission, of a poll, of the job, of the retrieval of the result pages or
\* of the writing of the output file ends the document as textract_failed,
\* with an error and no output_path.  When only pipeline stages fail, every
\* such document is counted in textract_failures, a document ends as success
\* exactly when its output file was written, no record is unexpected_error,
\* and the written summary has
\* total_files = successful + repair_failures + textract_failures.
C19_FailureAfterOptimizerIsTextractFailed ==
    /\ (/\ DocEnded
        /\ optimizer = "ok"
        /\ \/ LastEvent \in {"upload_raise", "start_raise", "poll_raise", "poll_FAILED",
                              "results_raise"}
           \/ (LastEvent = "write_output" /\ output_file.state # "complete"))
           => /\ heap[idx].status = "textract_failed"
              /\ heap[idx].error # Null
              /\ heap[idx].output_path = NoPath
    /\ ~consoleFault =>
           /\ \A d \in DOMAIN heap : heap[d].status # "unexpected_error"
           /\ processing_summary.textract_failures = NumberOf("textract_failed")
           /\ (DocEnded /\ optimizer = "ok") =>
                  /\ heap[idx].status \in {"success", "textract_failed"}
                  /\ heap[idx].status = "success" <=> output_file.state = "complete"
           /\ pc = "done" =>
                  log_file[1].total_files =
                      log_file[1].successful + log_file[1].repair_failures
                          + log_file[1].textract_failures

C19_OutputWriteFailed ==
    /\ pc = "done"
    /\ ~consoleFault
    /\ pdf_files = 2
    /\ heap[1].status = "textract_failed"
    /\ heap[1].error = "ClientError"
    /\ LastEvent = "write_output"
    /\ output_file.state = "partial"
    /\ heap[2].status = "textract_failed"
    /\ heap[2].error = "OSError"
    /\ log_file[1].textract_failures = 2
====
